---- MODULE Spec2Model ----
(***************************************************************************)
(* A model of dca_alerts: the ATH store (persistence/ath_store.py), the    *)
(* drop analyzer (market/analyzer.py) and the orchestrator (main.py).      *)
(*                                                                         *)
(* Text written to and read from the backing file is modelled as sequences *)
(* of one-character strings, so that str()/isoformat() and                 *)
(* Decimal()/fromisoformat() are real conversions and not the identity.    *)
(***************************************************************************)
EXTENDS Integers, Sequences, FiniteSets, TLC

\* ------------------------------------------------------------------ bounds

\* Largest price, in whole units, that the fetcher or a caller submits.
MaxPrice == 1

\* Longest list of symbols in a configuration.
MaxIndices == 2

\* Number of evaluation cycles (invocations of main) followed.
MaxCycles == 2

\* Largest integer a DropAnalyzer is constructed with (the smallest is -1).
MaxIncrementInput == 102

\* Largest drop, in whole percent, that determine_drop_tier is called with.
MaxGapWhole == 100

\* How many updates each of two concurrent processes starts.
MaxUpdates == 2

\* How many moments pass while one analyzer is followed.
MaxTicks == 2

\* ----------------------------------------------------------- text helpers

Digits == <<"0", "1", "2", "3", "4", "5", "6", "7", "8", "9">>

IsDigit(ch) == \E i \in 1..10 : Digits[i] = ch

DigitChar(n) == Digits[n + 1]

DigitVal(ch) == (CHOOSE i \in 1..10 : Digits[i] = ch) - 1

RECURSIVE NatToDigits(_)
NatToDigits(n) ==
    IF n < 10 THEN <<DigitChar(n)>>
    ELSE NatToDigits(n \div 10) \o <<DigitChar(n % 10)>>

RECURSIVE DigitsToNat(_)
DigitsToNat(s) ==
    IF s = <<>> THEN 0
    ELSE 10 * DigitsToNat(SubSeq(s, 1, Len(s) - 1)) + DigitVal(s[Len(s)])

RECURSIVE Zeros(_)
Zeros(n) == IF n <= 0 THEN <<>> ELSE <<"0">> \o Zeros(n - 1)

\* n printed in at least w digits, as the %0wd of isoformat does.
Pad(n, w) ==
    LET ds == NatToDigits(n)
    IN  Zeros(w - Len(ds)) \o ds

AllDigits(s) == \A i \in 1..Len(s) : IsDigit(s[i])

RECURSIVE Pow10(_)
Pow10(n) == IF n <= 0 THEN 1 ELSE 10 * Pow10(n - 1)

\* ------------------------------------------------------------- decimals
\* A Decimal is a coefficient c and a number e of fractional digits: c / 10^e.
\* (Prices are finite and non-negative.)

Dec(c, e) == [c |-> c, e |-> e]

\* Decimal.__eq__ / __gt__: numeric, whatever the exponents.
DecEq(a, b) == a.c * Pow10(b.e) = b.c * Pow10(a.e)

\* A comparison that takes equal for greater.
DecGtMutGe(a, b) == a.c * Pow10(b.e) >= b.c * Pow10(a.e)

DecGt(a, b) == a.c * Pow10(b.e) > b.c * Pow10(a.e)

DecGe(a, b) == a.c * Pow10(b.e) >= b.c * Pow10(a.e)

\* str(Decimal): plain notation, the exponent kept ("6000.00", "0.05").
DecimalStr(d) ==
    LET ds == NatToDigits(d.c)
        n  == Len(ds)
    IN  IF d.e = 0 THEN ds
        ELSE IF n > d.e
             THEN SubSeq(ds, 1, n - d.e) \o <<".">> \o SubSeq(ds, n - d.e + 1, n)
             ELSE <<"0", ".">> \o Zeros(d.e - n) \o ds

PointsIn(s) == {i \in 1..Len(s) : s[i] = "."}

\* Decimal(str): digits with at most one point and at least one digit;
\* anything else is decimal.InvalidOperation.
DecimalSyntaxOk(s) ==
    /\ Cardinality(PointsIn(s)) <= 1
    /\ \A i \in 1..Len(s) : IsDigit(s[i]) \/ s[i] = "."
    /\ \E i \in 1..Len(s) : IsDigit(s[i])

DecimalParse(s) ==
    IF PointsIn(s) = {} THEN Dec(DigitsToNat(s), 0)
    ELSE LET p == CHOOSE i \in PointsIn(s) : TRUE
         IN  Dec(DigitsToNat(SubSeq(s, 1, p - 1) \o SubSeq(s, p + 1, Len(s))),
                 Len(s) - p)

\* ---------------------------------------------------------------- dates

Date(y, m, d) == [y |-> y, m |-> m, d |-> d]

IsLeap(y) == (y % 4 = 0 /\ y % 100 # 0) \/ y % 400 = 0

DaysInMonth(y, m) ==
    IF m = 2 THEN (IF IsLeap(y) THEN 29 ELSE 28)
    ELSE IF m \in {4, 6, 9, 11} THEN 30 ELSE 31

\* date.isoformat(): YYYY-MM-DD.
DateStr(d) == Pad(d.y, 4) \o <<"-">> \o Pad(d.m, 2) \o <<"-">> \o Pad(d.d, 2)

\* date.fromisoformat(str) accepts s (the extended format YYYY-MM-DD with a
\* real calendar day); anything else is ValueError.
DateSyntaxOk(s) ==
    /\ Len(s) = 10
    /\ s[5] = "-" /\ s[8] = "-"
    /\ AllDigits(SubSeq(s, 1, 4)) /\ AllDigits(SubSeq(s, 6, 7))
    /\ AllDigits(SubSeq(s, 9, 10))
    /\ LET y == DigitsToNat(SubSeq(s, 1, 4))
           m == DigitsToNat(SubSeq(s, 6, 7))
           d == DigitsToNat(SubSeq(s, 9, 10))
       IN  y >= 1 /\ m \in 1..12 /\ d >= 1 /\ d <= DaysInMonth(y, m)

DateParse(s) ==
    Date(DigitsToNat(SubSeq(s, 1, 4)), DigitsToNat(SubSeq(s, 6, 7)),
         DigitsToNat(SubSeq(s, 9, 10)))

\* A timezone-aware UTC datetime to the second (datetime.now(timezone.utc)).
DateTime(d, h, mi, s) == [date |-> d, h |-> h, mi |-> mi, s |-> s]

UtcSuffix == <<"+", "0", "0", ":", "0", "0">>

\* datetime.isoformat(): YYYY-MM-DDTHH:MM:SS+00:00.
DateTimeStr(t) ==
    DateStr(t.date) \o <<"T">> \o Pad(t.h, 2) \o <<":">> \o Pad(t.mi, 2)
        \o <<":">> \o Pad(t.s, 2) \o UtcSuffix

\* datetime.fromisoformat(str) accepts s; anything else is ValueError.
DateTimeSyntaxOk(s) ==
    /\ Len(s) = 25
    /\ DateSyntaxOk(SubSeq(s, 1, 10))
    /\ s[11] = "T"
    /\ AllDigits(SubSeq(s, 12, 13)) /\ s[14] = ":"
    /\ AllDigits(SubSeq(s, 15, 16)) /\ s[17] = ":"
    /\ AllDigits(SubSeq(s, 18, 19))
    /\ SubSeq(s, 20, 25) = UtcSuffix
    /\ DigitsToNat(SubSeq(s, 12, 13)) <= 23
    /\ DigitsToNat(SubSeq(s, 15, 16)) <= 59
    /\ DigitsToNat(SubSeq(s, 18, 19)) <= 59

DateTimeParse(s) ==
    DateTime(DateParse(SubSeq(s, 1, 10)), DigitsToNat(SubSeq(s, 12, 13)),
             DigitsToNat(SubSeq(s, 15, 16)), DigitsToNat(SubSeq(s, 18, 19)))

\* ---------------------------------------------------------------- models

\* IndexSymbol: the values of the enumeration.
IndexSymbol == {"^GSPC", "^NDX", "^RUT"}

ATHRecord(symbol, ath_value, ath_date, updated_at) ==
    [symbol |-> symbol, ath_value |-> ath_value, ath_date |-> ath_date,
     updated_at |-> updated_at]

\* Python's None where an Optional[ATHRecord] is expected.
NoRecord ==
    ATHRecord("None", Dec(0, 0), Date(0, 0, 0), DateTime(Date(0, 0, 0), 0, 0, 0))

\* The dataclass's __eq__: field by field, the Decimal numerically.
RecEq(a, b) ==
    /\ a.symbol = b.symbol
    /\ DecEq(a.ath_value, b.ath_value)
    /\ a.ath_date = b.ath_date
    /\ a.updated_at = b.updated_at

\* ------------------------------------------------------- the backing file
\* A JSON value found under a field of an entry: a string (its characters),
\* a number, null, or no such field.

JStr(s) == [t |-> "str", s |-> s, n |-> 0]
JNum(n) == [t |-> "num", s |-> <<>>, n |-> n]
JNull == [t |-> "null", s |-> <<>>, n |-> 0]
JAbsent == [t |-> "absent", s |-> <<>>, n |-> 0]

\* An entry of the top-level object: a JSON object with (some of) the three
\* fields, or any JSON value that is not an object (obj = FALSE).
Entry(v, d, u) == [obj |-> TRUE, ath_value |-> v, ath_date |-> d, updated_at |-> u]

NotAnObject ==
    [obj |-> FALSE, ath_value |-> JAbsent, ath_date |-> JAbsent,
     updated_at |-> JAbsent]

EmptyDict == [k \in {} |-> NotAnObject]

\* What the target path holds: no file, bytes that are not text, text that is
\* not JSON, a truncated document, a JSON value that is not an object, or a
\* JSON object (data: key -> entry).
Missing == [kind |-> "missing", data |-> EmptyDict]
BadBytes == [kind |-> "badbytes", data |-> EmptyDict]
BadJson == [kind |-> "badjson", data |-> EmptyDict]
Partial == [kind |-> "partial", data |-> EmptyDict]
NonObject == [kind |-> "nonobject", data |-> EmptyDict]
ObjectFile(d) == [kind |-> "object", data |-> d]

\* ------------------------------------------------------------- ATHStore

\* update, lines 83-87: the entry written for a record.
SerializeRecord(r) ==
    Entry(JStr(DecimalStr(r.ath_value)), JStr(DateStr(r.ath_date)),
          JStr(DateTimeStr(r.updated_at)))

DictSet(d, k, e) == [x \in DOMAIN d \cup {k} |-> IF x = k THEN e ELSE d[x]]

\* A store that keeps the older entry when it holds the larger value.
UpsertMutKeepMax(d, r) ==
    IF /\ r.symbol \in DOMAIN d
       /\ d[r.symbol].obj
       /\ d[r.symbol].ath_value.t = "str"
       /\ DecimalSyntaxOk(d[r.symbol].ath_value.s)
       /\ DecGt(DecimalParse(d[r.symbol].ath_value.s), r.ath_value)
    THEN d
    ELSE DictSet(d, r.symbol, SerializeRecord(r))

\* A store that keeps a history under the symbol instead of replacing.
UpsertMutClobber(d, r) ==
    IF r.symbol \in DOMAIN d
    THEN DictSet(d, r.symbol, NotAnObject)
    ELSE DictSet(d, r.symbol, SerializeRecord(r))

\* update, line 83: data[record.symbol.value] = {...}.
Upsert(d, r) == DictSet(d, r.symbol, SerializeRecord(r))

\* A _load that keeps the entries of known symbols only.
LoadMutSymbolsOnly(f, fault) ==
    IF f.kind = "missing" THEN [exc |-> "none", data |-> EmptyDict]
    ELSE IF fault THEN [exc |-> "none", data |-> EmptyDict]
    ELSE IF f.kind = "badbytes"
         THEN [exc |-> "UnicodeDecodeError", data |-> EmptyDict]
    ELSE IF f.kind = "object"
         THEN [exc |-> "none",
               data |-> [k \in DOMAIN f.data \cap IndexSymbol |-> f.data[k]]]
    ELSE [exc |-> "none", data |-> EmptyDict]

\* _load: exists() is false for no file; open/read may fail with OSError
\* (fault); text that does not decode raises UnicodeDecodeError, which is
\* neither json.JSONDecodeError nor OSError and is not caught.
Load(f, fault) ==
    IF f.kind = "missing" THEN [exc |-> "none", data |-> EmptyDict]
    ELSE IF fault THEN [exc |-> "none", data |-> EmptyDict]
    ELSE IF f.kind = "badbytes"
         THEN [exc |-> "UnicodeDecodeError", data |-> EmptyDict]
    ELSE IF f.kind = "object" THEN [exc |-> "none", data |-> f.data]
    ELSE [exc |-> "none", data |-> EmptyDict]

\* get_all, lines 58-68: what building the ATHRecord of one entry does. Each
\* field is "ok", "skip" (KeyError or ValueError: caught, the entry is
\* skipped) or the name of the exception that is not caught. The keyword
\* arguments are evaluated in order, so the first field not ok decides.
ValueField(e) ==
    IF ~e.obj THEN "TypeError"
    ELSE IF e.ath_value.t = "absent" THEN "skip"
    ELSE IF e.ath_value.t = "null" THEN "TypeError"
    ELSE IF e.ath_value.t = "num" THEN "ok"
    ELSE IF DecimalSyntaxOk(e.ath_value.s) THEN "ok" ELSE "InvalidOperation"

DateField(e) ==
    IF e.ath_date.t = "absent" THEN "skip"
    ELSE IF e.ath_date.t # "str" THEN "TypeError"
    ELSE IF DateSyntaxOk(e.ath_date.s) THEN "ok" ELSE "skip"

StampField(e) ==
    IF e.updated_at.t = "absent" THEN "skip"
    ELSE IF e.updated_at.t # "str" THEN "TypeError"
    ELSE IF DateTimeSyntaxOk(e.updated_at.s) THEN "ok" ELSE "skip"

EntryOutcome(e) ==
    IF ValueField(e) # "ok" THEN ValueField(e)
    ELSE IF DateField(e) # "ok" THEN DateField(e)
    ELSE StampField(e)

EntryValue(e) ==
    IF e.ath_value.t = "num" THEN Dec(e.ath_value.n, 0)
    ELSE DecimalParse(e.ath_value.s)

EntryRecord(k, e) ==
    ATHRecord(k, EntryValue(e), DateParse(e.ath_date.s),
              DateTimeParse(e.updated_at.s))

\* get_all: the records of the entries under the symbols' keys; keys that are
\* no symbol's value are passed over. exc is "none" or the exception that
\* leaves get_all.
Raisers(d) ==
    {k \in DOMAIN d \cap IndexSymbol : EntryOutcome(d[k]) \notin {"ok", "skip"}}

NoRecords == [k \in {} |-> NoRecord]

GetAllResult(f, fault) ==
    LET l == Load(f, fault)
        d == l.data
    IN  IF l.exc # "none" THEN [exc |-> l.exc, records |-> NoRecords]
        ELSE IF Raisers(d) # {}
             THEN [exc |-> EntryOutcome(d[CHOOSE k \in Raisers(d) : TRUE]),
                   records |-> NoRecords]
        ELSE [exc |-> "none",
              records |-> [k \in {x \in DOMAIN d \cap IndexSymbol :
                                     EntryOutcome(d[x]) = "ok"}
                           |-> EntryRecord(k, d[k])]]

\* get: records.get(symbol).
GetResult(f, fault, s) ==
    LET g == GetAllResult(f, fault)
    IN  [exc |-> g.exc,
         rec |-> IF g.exc = "none" /\ s \in DOMAIN g.records
                 THEN g.records[s] ELSE NoRecord]

\* _save, lines 141-145: the handler of an OSError raised inside the try.
\* With temp_path assigned it removes the temporary file and raises
\* ATHStoreError; before line 138 has run, reading temp_path raises
\* UnboundLocalError and the temporary file (if created) stays.
SaveHandlerMutUnlinkTarget(bound, t, f) ==
    IF bound THEN [exc |-> "ATHStoreError", tmp |-> t, file |-> Missing]
    ELSE [exc |-> "UnboundLocalError", tmp |-> t, file |-> f]

SaveHandler(bound, t, f) ==
    IF bound THEN [exc |-> "ATHStoreError", tmp |-> "none", file |-> f]
    ELSE [exc |-> "UnboundLocalError", tmp |-> t, file |-> f]

\* ------------------------------------------------------------ inputs

\* Prices as the fetcher builds them (Decimal(str(float))): whole numbers and
\* one with two decimals.
Prices == {Dec(p, 0) : p \in 1..MaxPrice} \cup {Dec(150, 2)}

\* A market date with the moment the record was built.
Stamps ==
    {[date |-> Date(2024, 2, 29), at |-> DateTime(Date(2024, 2, 29), 18, 0, 0)],
     [date |-> Date(2025, 1, 10), at |-> DateTime(Date(2025, 1, 15), 9, 30, 5)]}

\* The symbols records are submitted for; "^RUT" stays a symbol of the
\* enumeration that nothing is stored under.
StoredSymbols == {"^GSPC", "^NDX"}

UpdateRecords ==
    {ATHRecord(s, v, st.date, st.at) : s \in StoredSymbols, v \in Prices, st \in Stamps}

GoodDate == JStr(DateStr(Date(2025, 1, 10)))
GoodStamp == JStr(DateTimeStr(DateTime(Date(2025, 1, 10), 18, 0, 0)))
GoodValue == JStr(DecimalStr(Dec(250, 2)))

\* Entries as a file edited by hand or written by another tool may hold them.
GoodEntries == {Entry(GoodValue, GoodDate, GoodStamp)}

BadEntries ==
    {NotAnObject,
     Entry(JAbsent, GoodDate, GoodStamp),
     Entry(JStr(<<"a", "b", "c">>), GoodDate, GoodStamp),
     Entry(JNull, GoodDate, GoodStamp),
     Entry(JNum(2), GoodDate, GoodStamp),
     Entry(GoodValue, JStr(<<"2", "0", "2", "5", "-", "1", "3", "-", "0", "1">>),
           GoodStamp),
     Entry(GoodValue, JNum(5), GoodStamp),
     Entry(GoodValue, GoodDate, JStr(<<"x">>)),
     Entry(GoodValue, GoodDate, JNull)}

InitEntriesFor(k) ==
    IF k = "^GSPC" THEN GoodEntries \cup BadEntries
    ELSE IF k = "^NDX" THEN GoodEntries
    ELSE {NotAnObject}

\* "FOO" is a top-level key that is no symbol's value.
InitKeys == {"^GSPC", "^NDX", "FOO"}

InitDicts ==
    {d \in UNION {[K -> GoodEntries \cup BadEntries] : K \in SUBSET InitKeys} :
        \A k \in DOMAIN d : d[k] \in InitEntriesFor(k)}

InitFiles ==
    {Missing, BadBytes, BadJson, NonObject} \cup {ObjectFile(d) : d \in InitDicts}

\* ------------------------------------------------------------- state

Procs == {"p1", "p2"}

VARIABLES
    file,        \* what the path self._path holds
    dirExists,   \* whether self._path.parent exists
    pc,          \* per process: where it is in update ("idle": in no call)
    rec,         \* per process: update's argument
    data,        \* per process: update's local dict, after line 87
    tmp,         \* per process: the temporary file of its latest update
    tempBound,   \* per process: whether _save's local temp_path is assigned
    loadFault,   \* per process: whether _load of this update hit OSError
    repeat,      \* per process: whether this update repeats the one before it
    outcome,     \* per process: how its latest call ended
    last         \* history: the call before this one, if it was an update
                 \* that returned normally (its record, the file before it,
                 \* whether it repeated the update before it, whether its
                 \* _load hit OSError); NoLast otherwise

storeVars ==
    <<file, dirExists, pc, rec, data, tmp, tempBound, loadFault, repeat, outcome,
      last>>

\* after: the record of the update that returned normally just before this
\* call (history; NoRecord when the call before was no such update).
Outcome(op, sym, fault, exc, r, records, after) ==
    [op |-> op, sym |-> sym, fault |-> fault, exc |-> exc, rec |-> r,
     records |-> records, after |-> after]

NoOutcome == Outcome("none", "None", "none", "none", NoRecord, NoRecords, NoRecord)

NoLast == [rec |-> NoRecord, before |-> Missing, repeat |-> FALSE, loadFault |-> FALSE]

StoreInit ==
    /\ file \in InitFiles
    /\ dirExists \in BOOLEAN
    /\ file.kind # "missing" => dirExists
    /\ pc = [p \in Procs |-> "idle"]
    /\ rec = [p \in Procs |-> NoRecord]
    /\ data = [p \in Procs |-> EmptyDict]
    /\ tmp = [p \in Procs |-> "none"]
    /\ tempBound = [p \in Procs |-> FALSE]
    /\ loadFault = [p \in Procs |-> FALSE]
    /\ repeat = [p \in Procs |-> FALSE]
    /\ outcome = [p \in Procs |-> NoOutcome]
    /\ last = NoLast

\* A get that leaves an empty document where it found no file.
GetMutCreates(p, s, fault) ==
    /\ pc[p] = "idle"
    /\ LET g == GetResult(file, fault, s)
       IN  outcome' = [outcome EXCEPT ![p] =
               Outcome("get", s, IF fault THEN "read" ELSE "none", g.exc, g.rec,
                       NoRecords, last.rec)]
    /\ last' = NoLast
    /\ file' = (IF file.kind = "missing" THEN ObjectFile(EmptyDict) ELSE file)
    /\ dirExists' = TRUE
    /\ UNCHANGED <<pc, rec, data, tmp, tempBound, loadFault, repeat>>

\* get(symbol), lines 42-43. fault: the read of the file fails with OSError.
Get(p, s, fault) ==
    /\ pc[p] = "idle"
    /\ LET g == GetResult(file, fault, s)
       IN  outcome' = [outcome EXCEPT ![p] =
               Outcome("get", s, IF fault THEN "read" ELSE "none", g.exc, g.rec,
                       NoRecords, last.rec)]
    /\ last' = NoLast
    /\ UNCHANGED <<file, dirExists, pc, rec, data, tmp, tempBound, loadFault, repeat>>

\* get_all(), lines 52-71.
GetAll(p, fault) ==
    /\ pc[p] = "idle"
    /\ LET g == GetAllResult(file, fault)
       IN  outcome' = [outcome EXCEPT ![p] =
               Outcome("get_all", "None", IF fault THEN "read" ELSE "none", g.exc,
                       NoRecord, g.records, last.rec)]
    /\ last' = NoLast
    /\ UNCHANGED <<file, dirExists, pc, rec, data, tmp, tempBound, loadFault, repeat>>

\* How a call of update ends: back in no call, its locals gone, its outcome
\* known.
EndUpdate(p, fault, exc) ==
    /\ pc' = [pc EXCEPT ![p] = "idle"]
    /\ rec' = [rec EXCEPT ![p] = NoRecord]
    /\ data' = [data EXCEPT ![p] = EmptyDict]
    /\ tempBound' = [tempBound EXCEPT ![p] = FALSE]
    /\ loadFault' = [loadFault EXCEPT ![p] = FALSE]
    /\ repeat' = [repeat EXCEPT ![p] = FALSE]
    /\ outcome' = [outcome EXCEPT ![p] =
           Outcome("update", "None", fault, exc, NoRecord, NoRecords,
                   NoRecord)]

\* update(record), lines 82-87: load the file and set the record's entry.
\* A temporary file an earlier update left is not looked at again (each
\* update draws a new name).
UpdateLoad(p, r, fault) ==
    /\ pc[p] = "idle"
    /\ tmp' = [tmp EXCEPT ![p] = "none"]
    /\ last' = NoLast
    /\ LET l == Load(file, fault)
       IN  IF l.exc # "none"
           THEN /\ pc' = pc
                /\ outcome' = [outcome EXCEPT ![p] =
                       Outcome("update", "None", "none", l.exc, NoRecord,
                               NoRecords, NoRecord)]
                /\ UNCHANGED <<rec, data, loadFault, repeat>>
           ELSE /\ rec' = [rec EXCEPT ![p] = r]
                /\ data' = [data EXCEPT ![p] = Upsert(l.data, r)]
                /\ loadFault' = [loadFault EXCEPT ![p] =
                                    fault /\ file.kind # "missing"]
                /\ repeat' = [repeat EXCEPT ![p] = (r = last.rec)]
                /\ pc' = [pc EXCEPT ![p] = "mkdir"]
                /\ outcome' = [outcome EXCEPT ![p] = NoOutcome]
    /\ UNCHANGED <<file, dirExists, tempBound>>

\* _save, line 127: mkdir(parents=True, exist_ok=True), outside the try: its
\* OSError leaves update as it is.
SaveMkdir(p, ok) ==
    /\ pc[p] = "mkdir"
    /\ IF ok
       THEN /\ dirExists' = TRUE
            /\ pc' = [pc EXCEPT ![p] = "create"]
            /\ UNCHANGED <<rec, data, tempBound, loadFault, repeat, outcome>>
       ELSE /\ ~dirExists
            /\ EndUpdate(p, "mkdir", "OSError")
            /\ UNCHANGED dirExists
    /\ UNCHANGED <<file, tmp, last>>

\* The except clause of _save, entered with an OSError raised at `stage`.
SaveFails(p, stage) ==
    LET h == SaveHandler(tempBound[p], tmp[p], file)
    IN  /\ tmp' = [tmp EXCEPT ![p] = h.tmp]
        /\ file' = h.file
        /\ EndUpdate(p, stage, h.exc)
        /\ UNCHANGED <<dirExists, last>>

\* _save, lines 130-136: NamedTemporaryFile(dir=parent, delete=False).
SaveCreate(p, ok) ==
    /\ pc[p] = "create"
    /\ IF ok
       THEN /\ tmp' = [tmp EXCEPT ![p] = "empty"]
            /\ pc' = [pc EXCEPT ![p] = "dump"]
            /\ UNCHANGED <<file, dirExists, rec, data, tempBound, loadFault,
                           repeat, outcome, last>>
       ELSE SaveFails(p, "create")

\* A _save that writes the document into the target itself.
SaveDumpMutInPlace(p, ok) ==
    /\ pc[p] = "dump"
    /\ IF ok
       THEN /\ file' = (IF tmp[p] = "empty" THEN Partial ELSE ObjectFile(data[p]))
            /\ tmp' = [tmp EXCEPT ![p] = IF tmp[p] = "empty" THEN "partial"
                                                              ELSE "complete"]
            /\ pc' = [pc EXCEPT ![p] = IF tmp[p] = "empty" THEN "dump" ELSE "bind"]
            /\ UNCHANGED <<dirExists, rec, data, tempBound, loadFault, repeat,
                           outcome, last>>
       ELSE SaveFails(p, "write")

\* _save, line 137: json.dump writes the document piece by piece; the file
\* holds a part of it before it holds all of it.
SaveDump(p, ok) ==
    /\ pc[p] = "dump"
    /\ IF ok
       THEN /\ tmp' = [tmp EXCEPT ![p] = IF tmp[p] = "empty" THEN "partial"
                                                              ELSE "complete"]
            /\ pc' = [pc EXCEPT ![p] = IF tmp[p] = "empty" THEN "dump" ELSE "bind"]
            /\ UNCHANGED <<file, dirExists, rec, data, tempBound, loadFault,
                           repeat, outcome, last>>
       ELSE SaveFails(p, "write")

\* _save, line 138 and the end of the with block: temp_path is assigned, then
\* the file is closed (which writes out what was still buffered).
SaveClose(p, ok) ==
    /\ pc[p] = "bind"
    /\ IF ok
       THEN /\ tempBound' = [tempBound EXCEPT ![p] = TRUE]
            /\ pc' = [pc EXCEPT ![p] = "replace"]
            /\ UNCHANGED <<file, dirExists, rec, data, tmp, loadFault, repeat,
                           outcome, last>>
       ELSE LET h == SaveHandler(TRUE, tmp[p], file)
            IN  /\ tmp' = [tmp EXCEPT ![p] = h.tmp]
                /\ file' = h.file
                /\ EndUpdate(p, "close", h.exc)
                /\ UNCHANGED <<dirExists, last>>

\* _save, line 140: temp_path.replace(self._path), an atomic rename; then
\* update returns (lines 89-94 only log).
SaveReplace(p, ok) ==
    /\ pc[p] = "replace"
    /\ IF ok
       THEN /\ file' = (IF tmp[p] = "complete" THEN ObjectFile(data[p]) ELSE Partial)
            /\ tmp' = [tmp EXCEPT ![p] = "none"]
            /\ last' = [rec |-> rec[p], before |-> file, repeat |-> repeat[p],
                        loadFault |-> loadFault[p]]
            /\ EndUpdate(p, "none", "none")
            /\ UNCHANGED dirExists
       ELSE SaveFails(p, "replace")

\* The process stops in the middle of update (it is killed): nothing more of
\* the call runs; a later call is a new process's.
Crash(p) ==
    /\ pc[p] # "idle"
    /\ EndUpdate(p, "crash", "none")
    /\ UNCHANGED <<file, dirExists, tmp, last>>

StoreStep(p) ==
    \/ \E s \in IndexSymbol, fault \in BOOLEAN : Get(p, s, fault)
    \/ \E fault \in BOOLEAN : GetAll(p, fault)
    \/ \E r \in UpdateRecords, fault \in BOOLEAN : UpdateLoad(p, r, fault)
    \/ \E ok \in BOOLEAN : SaveMkdir(p, ok)
    \/ \E ok \in BOOLEAN : SaveCreate(p, ok)
    \/ \E ok \in BOOLEAN : SaveDump(p, ok)
    \/ \E ok \in BOOLEAN : SaveClose(p, ok)
    \/ \E ok \in BOOLEAN : SaveReplace(p, ok)
    \/ Crash(p)

\* ------------------------------------------------------------ DropAnalyzer
\* Signed decimals (a gap is negative below the ATH) use Dec with c < 0.

Abs(n) == IF n < 0 THEN -n ELSE n

\* A quantize that cuts the digits off (ROUND_DOWN).
RoundHalfEvenMutTruncate(n, d) ==
    IF n < 0 THEN -((-n) \div d) ELSE n \div d

\* Decimal.quantize with the context's ROUND_HALF_EVEN: n / d to the nearest
\* integer, a tie to the even one (d > 0).
RoundHalfEven(n, d) ==
    LET q == Abs(n) \div d
        r == Abs(n) % d
        m == IF 2 * r > d \/ (2 * r = d /\ q % 2 = 1) THEN q + 1 ELSE q
    IN  IF n < 0 THEN -m ELSE m

\* calculate_gap_percent, lines 139-142: ((current - ath) / ath) * 100 to two
\* decimals, 0 for ath = 0.
calculate_gap_percent(current, ath) ==
    IF ath.c = 0 THEN Dec(0, 0)
    ELSE LET cN == current.c * Pow10(ath.e)
             aN == ath.c * Pow10(current.e)
         IN  Dec(RoundHalfEven((cN - aN) * 10000, aN), 2)

\* A tier taken to the nearest multiple of the increment instead of the one
\* below.
determine_drop_tierMutNearest(increment, gap_percent) ==
    IF gap_percent.c >= 0 THEN 0
    ELSE ((-gap_percent.c + (increment * Pow10(gap_percent.e)) \div 2)
            \div (increment * Pow10(gap_percent.e))) * increment

\* determine_drop_tier, lines 158-164: |gap| / increment rounded down, times
\* the increment; 0 for a gap that is not negative.
determine_drop_tier(increment, gap_percent) ==
    IF gap_percent.c >= 0 THEN 0
    ELSE (Abs(gap_percent.c) \div (increment * Pow10(gap_percent.e))) * increment

IndexData(symbol, current_price, fetched_at, market_date) ==
    [symbol |-> symbol, current_price |-> current_price,
     fetched_at |-> fetched_at, market_date |-> market_date]

AnalysisResult(symbol, current_price, ath_value, ath_date, gap_percent,
               drop_tier, recommendation, is_new_ath) ==
    [symbol |-> symbol, current_price |-> current_price,
     ath_value |-> ath_value, ath_date |-> ath_date,
     gap_percent |-> gap_percent, drop_tier |-> drop_tier,
     recommendation |-> recommendation, is_new_ath |-> is_new_ath]

\* analyze, lines 56-61 and 83-88: the record of a new ATH.
NewAth(index_data, now) ==
    ATHRecord(index_data.symbol, index_data.current_price,
              index_data.market_date, now)

\* An analyzer whose new-ATH result is dated with the day of the fetch and
\* carries a drop tier of one.
NewAthResultMutStale(index_data) ==
    AnalysisResult(index_data.symbol, index_data.current_price,
                   index_data.current_price, index_data.fetched_at.date,
                   Dec(0, 0), 1, "HOLD", TRUE)

\* analyze, lines 62-71 and 89-98: the result that reports a new ATH.
NewAthResult(index_data) ==
    AnalysisResult(index_data.symbol, index_data.current_price,
                   index_data.current_price, index_data.market_date,
                   Dec(0, 0), 0, "HOLD", TRUE)

\* An analyzer that recommends buying at tier 0 too.
RecommendMutAtZero(drop_tier) == IF drop_tier >= 0 THEN "BUY" ELSE "HOLD"

\* analyze, line 102.
Recommend(drop_tier) == IF drop_tier > 0 THEN "BUY" ELSE "HOLD"

\* An analyzer that dates the ATH it reports with the observation's day.
BelowAthResultMutToday(index_data, ath_record, gap_percent, drop_tier) ==
    AnalysisResult(index_data.symbol, index_data.current_price,
                   ath_record.ath_value, index_data.market_date, gap_percent,
                   drop_tier, Recommend(drop_tier), FALSE)

\* analyze, lines 114-123: the result below or at the ATH.
BelowAthResult(index_data, ath_record, gap_percent, drop_tier) ==
    AnalysisResult(index_data.symbol, index_data.current_price,
                   ath_record.ath_value, ath_record.ath_date, gap_percent,
                   drop_tier, Recommend(drop_tier), FALSE)

\* analyze, lines 45-124; now is what datetime.now(timezone.utc) returns.
\* new_ath is NoRecord where the code returns None.
analyze(increment, index_data, ath_record, now) ==
    LET current == index_data.current_price
    IN  IF ath_record = NoRecord
        THEN [result |-> NewAthResult(index_data),
              new_ath |-> NewAth(index_data, now)]
        ELSE IF DecGt(current, ath_record.ath_value)
        THEN [result |-> NewAthResult(index_data),
              new_ath |-> NewAth(index_data, now)]
        ELSE LET gap_percent == calculate_gap_percent(current,
                                                      ath_record.ath_value)
                 drop_tier == determine_drop_tier(increment, gap_percent)
             IN  [result |-> BelowAthResult(index_data, ath_record,
                                            gap_percent, drop_tier),
                  new_ath |-> NoRecord]

\* ------------------------------------------------------------------- run
\* One evaluation cycle is one invocation of main: the configuration is
\* loaded, run is called, and what run returns or raises becomes the exit
\* code. Within a cycle the process is alone on the store and each
\* store.update is one step (its own steps are StoreStep's).

EXIT_SUCCESS == 0
EXIT_PARTIAL == 1
EXIT_FAILURE == 2

\* The symbols a configuration lists; _parse_indices keeps the list as it is
\* written, a symbol named twice stays twice.
IndexLists ==
    UNION {[1..n -> StoredSymbols] : n \in 1..MaxIndices}

\* drop_increment of the configuration (the default) and whether SMTP is
\* configured.
Configs ==
    {[indices |-> l, drop_increment |-> 5, email |-> e] :
        l \in IndexLists, e \in BOOLEAN}

NoConfig == [indices |-> <<>>, drop_increment |-> 5, email |-> FALSE]

\* The market date and the clock of the n-th cycle.
RunDate(n) == Date(2025, 1, 10 + n)

RunNow(n) == DateTime(RunDate(n), 18, 0, 0)

\* fetch of one symbol, and fetch_ath: a MarketDataError (ok = FALSE) or a
\* price (the latest Close, the highest High).
Failed == [ok |-> FALSE, price |-> Dec(0, 0)]

Fetched(price) == [ok |-> TRUE, price |-> price]

FetchOutcomes == {Failed} \cup {Fetched(p) : p \in Prices}

\* A fetch_all that puts each result in front of the ones before it.
RECURSIVE fetch_allMutReversed(_, _, _)
fetch_allMutReversed(symbols, got, n) ==
    IF symbols = <<>> THEN <<>>
    ELSE LET rest == fetch_allMutReversed(Tail(symbols), Tail(got), n)
         IN  IF ~Head(got).ok THEN rest
             ELSE rest \o <<IndexData(Head(symbols), Head(got).price, RunNow(n),
                                      RunDate(n))>>

\* fetch_all, lines 89-102: the data of the symbols whose fetch succeeded, in
\* the order of the list. got[i] is the outcome of the i-th fetch.
RECURSIVE fetch_all(_, _, _)
fetch_all(symbols, got, n) ==
    IF symbols = <<>> THEN <<>>
    ELSE LET rest == fetch_all(Tail(symbols), Tail(got), n)
         IN  IF ~Head(got).ok THEN rest
             ELSE <<IndexData(Head(symbols), Head(got).price, RunNow(n),
                              RunDate(n))>> \o rest

\* The day of the highest High that fetch_ath finds.
HistoricDate == Date(2024, 2, 29)

\* What store.update does to the file when it returns: the loaded document
\* with the record's entry set, renamed over the target.
UpdateCommit(f, r, fault) == ObjectFile(Upsert(Load(f, fault).data, r))

\* How store.update may end inside run: it returns ("none") or raises what
\* _save raises (OSError only from mkdir of a directory not there yet).
UpdateEnds ==
    {"none", "ATHStoreError", "UnboundLocalError", "OSError"}

\* ath_records, the dict of line 50, as a function on all symbols: NoRecord
\* for a symbol that is not a key.
AsDict(records) ==
    [s \in IndexSymbol |-> IF s \in DOMAIN records THEN records[s] ELSE NoRecord]

NoAthRecords == [s \in IndexSymbol |-> NoRecord]

\* A run that goes on with an empty list.
NothingFetchedMutNever(l) == FALSE

\* run, line 46: `if not index_data_list`.
NothingFetched(l) == l = <<>>

\* A handler that catches every exception.
CaughtMutAny(exc) == TRUE

\* run, line 63: `except MarketDataError`, the only handler in run.
\* ATHStoreError, OSError and UnboundLocalError are no subclasses of it.
Caught(exc) == exc = "MarketDataError"

\* A backfill loop that does not keep the record it stored.
BackfilledMutForgets(records, historical_ath) == records

\* run, line 62: ath_records[index_data.symbol] = historical_ath.
Backfilled(records, historical_ath) ==
    [records EXCEPT ![historical_ath.symbol] = historical_ath]

\* One call that run made in this cycle, for the history in `trace`:
\*   "fetch"      fetcher.fetch(symbol) inside fetch_all; exc is how it ended
\*   "fetch_ath"  fetcher.fetch_ath(symbol), line 60; rec is what it returned
\*   "update"     store.update(rec), lines 61 and 77; exc is how it ended
\*   "analyze"    analyzer.analyze(index_data, rec), line 73; held is the
\*                record store.get(symbol) would return at that moment
Event(op, symbol, r, exc, held) ==
    [op |-> op, symbol |-> symbol, rec |-> r, exc |-> exc, held |-> held]

\* store.get(symbol) on the file f, its read not failing.
Held(f, symbol) == GetResult(f, FALSE, symbol).rec

VARIABLES
    config,           \* the AppConfig of this cycle
    runPc,            \* where run is: "off", "backfill", "analyze", "notify",
                      \* "returned", "raised"
    index_data_list,  \* line 44
    ath_records,      \* line 50
    pos,              \* the index of the loop iteration about to run
    results,          \* line 70
    raised,           \* the exception that left run ("none")
    exitCode,         \* what main returned (-1: nothing yet)
    sent,             \* what became of the report on the console and by mail
    cycles,           \* how many cycles have started
    trace,            \* history: the calls run made in this cycle, in order
    snapshot,         \* history: ath_records as get_all returned it, line 50
    atStart           \* history: the file and its directory when run began

runVars ==
    <<config, runPc, index_data_list, ath_records, pos, results, raised,
      exitCode, sent, cycles, trace, snapshot, atStart>>

\* console, email: "no" (send was not called), "ok" (it returned True) or
\* "failed" (it returned False).
Sent(console, email) == [console |-> console, email |-> email]

NotSent == Sent("no", "no")

RunOff ==
    /\ config = NoConfig
    /\ runPc = "off"
    /\ index_data_list = <<>>
    /\ ath_records = NoAthRecords
    /\ pos = 1
    /\ results = <<>>
    /\ raised = "none"
    /\ exitCode = -1
    /\ sent = NotSent
    /\ cycles = 0
    /\ trace = <<>>
    /\ snapshot = NoAthRecords
    /\ atStart = [file |-> Missing, dir |-> FALSE]

\* An exception leaves run; main, lines 167-172, turns it into EXIT_FAILURE.
RunRaises(exc) ==
    /\ runPc' = "raised"
    /\ raised' = exc
    /\ exitCode' = EXIT_FAILURE

\* store.update(r) called by run: the exception that leaves it ("none": it
\* returned), the file and the directory after it.
RunUpdate(r, fault, end) ==
    LET l == Load(file, fault)
    IN  IF l.exc # "none"
        THEN [exc |-> l.exc, file |-> file, dir |-> dirExists]
        ELSE IF end # "none"
        THEN [exc |-> end, file |-> file,
              dir |-> dirExists \/ end # "OSError"]
        ELSE [exc |-> "none", file |-> UpdateCommit(file, r, fault),
              dir |-> TRUE]

\* main and run, lines 38-50: a new invocation; fetch_all, the return of
\* EXIT_FAILURE when nothing was fetched, get_all.
RunFetch(c, got, fault) ==
    /\ runPc = "off"
    /\ cycles < MaxCycles
    /\ fault => file.kind # "missing"
    /\ Len(got) = Len(c.indices)
    /\ cycles' = cycles + 1
    /\ config' = c
    /\ pos' = 1
    /\ results' = <<>>
    /\ index_data_list' = fetch_all(c.indices, got, cycles + 1)
    /\ sent' = NotSent
    /\ trace' = [i \in 1..Len(got) |->
                    Event("fetch", c.indices[i], NoRecord,
                          IF got[i].ok THEN "none" ELSE "MarketDataError",
                          NoRecord)]
    /\ atStart' = [file |-> file, dir |-> dirExists]
    /\ LET g == GetAllResult(file, fault)
       IN  IF NothingFetched(index_data_list')
           THEN /\ runPc' = "returned"
                /\ raised' = "none"
                /\ exitCode' = EXIT_FAILURE
                /\ ath_records' = NoAthRecords
           ELSE IF g.exc # "none"
           THEN /\ RunRaises(g.exc)
                /\ ath_records' = NoAthRecords
           ELSE /\ runPc' = "backfill"
                /\ raised' = "none"
                /\ exitCode' = -1
                /\ ath_records' = AsDict(g.records)
    /\ snapshot' = ath_records'
    /\ UNCHANGED storeVars

\* run, lines 53-68: one iteration of the backfill loop. A symbol with a
\* record is passed over; a MarketDataError of fetch_ath is logged and the loop
\* goes on; an exception of store.update is not caught.
RunBackfill(hist, fault, end) ==
    /\ runPc = "backfill"
    /\ pos <= Len(index_data_list)
    /\ fault => file.kind # "missing"
    /\ end = "OSError" => ~dirExists
    /\ LET symbol == index_data_list[pos].symbol
           historical_ath ==
               ATHRecord(symbol, hist.price, HistoricDate, RunNow(cycles))
           u == RunUpdate(historical_ath, fault, end)
           asked == Event("fetch_ath", symbol,
                          IF hist.ok THEN historical_ath ELSE NoRecord,
                          IF hist.ok THEN "none" ELSE "MarketDataError",
                          NoRecord)
       IN  IF ath_records[symbol] # NoRecord
           THEN /\ ~hist.ok /\ ~fault /\ end = "none"
                /\ pos' = pos + 1
                /\ UNCHANGED <<file, dirExists, ath_records, runPc, raised,
                               exitCode, trace>>
           ELSE IF ~hist.ok
           THEN /\ ~fault /\ end = "none"
                /\ pos' = pos + 1
                /\ trace' = Append(trace, asked)
                /\ UNCHANGED <<file, dirExists, ath_records, runPc, raised,
                               exitCode>>
           ELSE /\ file' = u.file
                /\ dirExists' = u.dir
                /\ trace' = trace \o
                       <<asked,
                         Event("update", symbol, historical_ath, u.exc,
                               NoRecord)>>
                /\ IF u.exc = "none"
                   THEN /\ ath_records' = Backfilled(ath_records, historical_ath)
                        /\ pos' = pos + 1
                        /\ UNCHANGED <<runPc, raised, exitCode>>
                   ELSE IF Caught(u.exc)
                   THEN /\ pos' = pos + 1
                        /\ UNCHANGED <<ath_records, runPc, raised, exitCode>>
                   ELSE /\ RunRaises(u.exc)
                        /\ UNCHANGED <<ath_records, pos>>
    /\ UNCHANGED <<config, index_data_list, results, sent, cycles, snapshot,
                   atStart>>
    /\ UNCHANGED <<pc, rec, data, tmp, tempBound, loadFault, repeat, outcome,
                   last>>

\* run, line 70: the backfill loop is over.
RunBackfillDone ==
    /\ runPc = "backfill"
    /\ pos > Len(index_data_list)
    /\ runPc' = "analyze"
    /\ pos' = 1
    /\ UNCHANGED <<config, index_data_list, ath_records, results, raised,
                   exitCode, sent, cycles, trace, snapshot, atStart>>
    /\ UNCHANGED storeVars

\* run, lines 71-77: one iteration of the analysis loop. ath_records is not
\* written here: it stays what the backfill loop left.
RunAnalyze(fault, end) ==
    /\ runPc = "analyze"
    /\ pos <= Len(index_data_list)
    /\ fault => file.kind # "missing"
    /\ end = "OSError" => ~dirExists
    /\ LET index_data == index_data_list[pos]
           a == analyze(config.drop_increment, index_data,
                        ath_records[index_data.symbol], RunNow(cycles))
           u == RunUpdate(a.new_ath, fault, end)
           called == Event("analyze", index_data.symbol,
                           ath_records[index_data.symbol], "none",
                           Held(file, index_data.symbol))
       IN  /\ results' = Append(results, a.result)
           /\ IF a.new_ath = NoRecord
              THEN /\ ~fault /\ end = "none"
                   /\ pos' = pos + 1
                   /\ trace' = Append(trace, called)
                   /\ UNCHANGED <<file, dirExists, runPc, raised, exitCode>>
              ELSE /\ file' = u.file
                   /\ dirExists' = u.dir
                   /\ trace' = trace \o
                          <<called,
                            Event("update", index_data.symbol, a.new_ath,
                                  u.exc, NoRecord)>>
                   /\ IF u.exc = "none"
                      THEN /\ pos' = pos + 1
                           /\ UNCHANGED <<runPc, raised, exitCode>>
                      ELSE /\ RunRaises(u.exc)
                           /\ UNCHANGED pos
    /\ UNCHANGED <<config, index_data_list, ath_records, sent, cycles,
                   snapshot, atStart>>
    /\ UNCHANGED <<pc, rec, data, tmp, tempBound, loadFault, repeat, outcome,
                   last>>

\* run, lines 79-107: the report goes to the console and, with SMTP
\* configured, by mail; the exit code tells which of them went out.
RunNotify(console_success, email_sent) ==
    /\ runPc = "analyze"
    /\ pos > Len(index_data_list)
    /\ LET email_success == IF config.email THEN email_sent ELSE TRUE
       IN  /\ ~config.email => email_sent
           /\ sent' = Sent(IF console_success THEN "ok" ELSE "failed",
                           IF ~config.email THEN "no"
                           ELSE IF email_sent THEN "ok" ELSE "failed")
           /\ exitCode' = IF console_success /\ email_success THEN EXIT_SUCCESS
                          ELSE IF console_success \/ email_success
                               THEN EXIT_PARTIAL
                               ELSE EXIT_FAILURE
    /\ runPc' = "returned"
    /\ UNCHANGED <<config, index_data_list, ath_records, pos, results, raised,
                   cycles, trace, snapshot, atStart>>
    /\ UNCHANGED storeVars

\* main, line 177: sys.exit(main()). The process ends with the exit code;
\* what run held is gone, the file stays.
MainExit ==
    /\ runPc \in {"returned", "raised"}
    /\ runPc' = "off"
    /\ config' = NoConfig
    /\ index_data_list' = <<>>
    /\ ath_records' = NoAthRecords
    /\ pos' = 1
    /\ results' = <<>>
    /\ raised' = "none"
    /\ sent' = NotSent
    /\ trace' = <<>>
    /\ snapshot' = NoAthRecords
    /\ atStart' = [file |-> Missing, dir |-> FALSE]
    /\ UNCHANGED <<exitCode, cycles>>
    /\ UNCHANGED storeVars

RunStep ==
    \/ \E c \in Configs, got \in UNION {[1..n -> FetchOutcomes] : n \in 1..MaxIndices},
          fault \in BOOLEAN : RunFetch(c, got, fault)
    \/ \E hist \in FetchOutcomes, fault \in BOOLEAN, end \in UpdateEnds :
          RunBackfill(hist, fault, end)
    \/ RunBackfillDone
    \/ \E fault \in BOOLEAN, end \in UpdateEnds : RunAnalyze(fault, end)
    \/ \E console_success \in BOOLEAN, email_sent \in BOOLEAN :
          RunNotify(console_success, email_sent)
    \/ MainExit

\* ------------------------------------------------- the analyzer on its own
\* A DropAnalyzer is constructed and one of its methods is called. No method
\* assigns self._increment or anything else, so what a call returns depends
\* on its arguments and the increment only; each analyzer is followed for one
\* call and then dropped.

\* A constructor that lets 101 through.
DropAnalyzerInitMutTo101(drop_increment) ==
    IF drop_increment <= 0 \/ drop_increment > 101 THEN "ValueError" ELSE "none"

\* __init__, lines 23-25: "ValueError" or "none" (self._increment is set).
DropAnalyzerInit(drop_increment) ==
    IF drop_increment <= 0 \/ drop_increment > 100 THEN "ValueError" ELSE "none"

\* The integers a construction is tried with.
IncrementInputs == (-1)..MaxIncrementInput

\* Gaps of two decimals on and next to every whole percent down to
\* -MaxGapWhole, and above zero.
Gaps ==
    {Dec(d - 100 * k, 2) : k \in 0..MaxGapWhole, d \in {-1, 0, 1}}
        \cup {Dec(500, 2)}

\* Index levels: nothing, a few points, and levels within some thousandths
\* of a percent of 5% below, and of, 100000.
WholePrices ==
    {Dec(p, 0) : p \in {0, 1, 2, 90000, 94996, 95004, 95005, 95006, 99995,
                        99999, 100000, 100001}}

\* Prices with cents.
SmallPrices == {Dec(0, 0), Dec(1, 0), Dec(100, 2), Dec(150, 2), Dec(250, 2)}

\* current and ath of one call.
PricePairs == (WholePrices \X WholePrices) \cup (SmallPrices \X SmallPrices)

\* The observation and the prior record of an analyze call.
Observation(current) == IndexData("^GSPC", current, RunNow(1), RunDate(1))

PriorRecord(ath) == ATHRecord("^GSPC", ath, HistoricDate, RunNow(0))

AnalyzeInputs ==
    {[index_data |-> Observation(pp[1]), ath_record |-> PriorRecord(pp[2])] :
        pp \in PricePairs}
    \cup {[index_data |-> Observation(c), ath_record |-> NoRecord] :
             c \in WholePrices \cup SmallPrices}

NoIndexData == IndexData("None", Dec(0, 0), RunNow(0), RunDate(0))

NoResult ==
    AnalysisResult("None", Dec(0, 0), Dec(0, 0), RunDate(0), Dec(0, 0), 0,
                   "HOLD", FALSE)

VARIABLES
    analyzer,   \* the DropAnalyzer: whether there is one, its _increment
    call,       \* the latest call: its arguments and what it returned
    clock,      \* the moments passed since the analyzer was constructed
    earlier     \* history: the call of analyze before a repeated one

analyzerVars == <<analyzer, call, clock, earlier>>

NoAnalyzer == [exists |-> FALSE, increment |-> 0]

Call(op, exc, increment, index_data, ath_record, result, new_ath, current,
     ath, gap, tier) ==
    [op |-> op, exc |-> exc, increment |-> increment,
     index_data |-> index_data, ath_record |-> ath_record, result |-> result,
     new_ath |-> new_ath, current |-> current, ath |-> ath, gap |-> gap,
     tier |-> tier]

NoCall ==
    Call("none", "none", 0, NoIndexData, NoRecord, NoResult, NoRecord,
         Dec(0, 0), Dec(0, 0), Dec(0, 0), 0)

AnalyzerOff ==
    /\ analyzer = NoAnalyzer
    /\ call = NoCall
    /\ clock = 0
    /\ earlier = NoCall

\* analyze, line 46: datetime.now(timezone.utc), `clock` moments after the
\* observation was fetched.
Now == RunNow(1 + clock)

\* DropAnalyzer(drop_increment).
Construct(n) ==
    /\ ~analyzer.exists
    /\ call.op = "none"
    /\ analyzer' = IF DropAnalyzerInit(n) = "none"
                   THEN [exists |-> TRUE, increment |-> n]
                   ELSE NoAnalyzer
    /\ call' = [NoCall EXCEPT !.op = "init", !.exc = DropAnalyzerInit(n),
                              !.increment = n]
    /\ UNCHANGED <<clock, earlier>>

\* analyzer.analyze(index_data, ath_record).
AnalyzeCall(in) ==
    /\ analyzer.exists
    /\ call.op = "init"
    /\ LET a == analyze(analyzer.increment, in.index_data, in.ath_record,
                        Now)
       IN  call' = [NoCall EXCEPT !.op = "analyze",
                                  !.increment = analyzer.increment,
                                  !.index_data = in.index_data,
                                  !.ath_record = in.ath_record,
                                  !.result = a.result, !.new_ath = a.new_ath]
    /\ UNCHANGED <<analyzer, clock, earlier>>

\* Time passes after a call of analyze.
Tick ==
    /\ call.op = "analyze"
    /\ earlier = NoCall
    /\ clock < MaxTicks
    /\ clock' = clock + 1
    /\ UNCHANGED <<analyzer, call, earlier>>

\* analyzer.analyze is called once more, with the arguments of the call
\* before.
AnalyzeAgain ==
    /\ analyzer.exists
    /\ call.op = "analyze"
    /\ earlier = NoCall
    /\ LET a == analyze(analyzer.increment, call.index_data, call.ath_record,
                        Now)
       IN  call' = [call EXCEPT !.result = a.result, !.new_ath = a.new_ath]
    /\ earlier' = call
    /\ UNCHANGED <<analyzer, clock>>

\* analyzer.calculate_gap_percent(current, ath).
GapCall(current, ath) ==
    /\ analyzer.exists
    /\ call.op = "init"
    /\ call' = [NoCall EXCEPT !.op = "gap", !.increment = analyzer.increment,
                              !.current = current, !.ath = ath,
                              !.gap = calculate_gap_percent(current, ath)]
    /\ UNCHANGED <<analyzer, clock, earlier>>

\* analyzer.determine_drop_tier(gap_percent).
TierCall(gap_percent) ==
    /\ analyzer.exists
    /\ call.op = "init"
    /\ call' = [NoCall EXCEPT !.op = "tier", !.increment = analyzer.increment,
                              !.gap = gap_percent,
                              !.tier = determine_drop_tier(analyzer.increment,
                                                           gap_percent)]
    /\ UNCHANGED <<analyzer, clock, earlier>>

\* The analyzer, or the failed attempt to construct one, is dropped.
Discard ==
    /\ call.op # "none"
    /\ analyzer' = NoAnalyzer
    /\ call' = NoCall
    /\ clock' = 0
    /\ earlier' = NoCall

AnalyzerStep ==
    \/ \E n \in IncrementInputs : Construct(n)
    \/ \E in \in AnalyzeInputs : AnalyzeCall(in)
    \/ \E pp \in PricePairs : GapCall(pp[1], pp[2])
    \/ \E g \in Gaps : TierCall(g)
    \/ Tick
    \/ AnalyzeAgain
    \/ Discard

\* --------------------------------------------- two processes, one file
\* Two invocations run at the same time on the same path. Each is a process
\* of its own with its own ATHStore; nothing in update or _save takes a lock,
\* so the steps of the two calls interleave freely.

\* The records the two processes submit: one for each symbol.
TwoRecords ==
    {ATHRecord(s, Dec(1, 0), Date(2025, 1, 10),
               DateTime(Date(2025, 1, 10), 18, 0, 0)) : s \in StoredSymbols}

\* The files the two start from: none, or a document without records.
TwoFiles ==
    {Missing, ObjectFile(EmptyDict), ObjectFile(DictSet(EmptyDict, "FOO", NotAnObject))}

VARIABLES
    started,   \* history, per process: how many updates it has started
    base,      \* history, per process: the file its latest update loaded
    wrote      \* history, per process: the record of its latest update, once
               \* that update has returned normally (NoRecord before)

twoVars == <<started, base, wrote>>

TwoOff ==
    /\ started = [p \in Procs |-> 0]
    /\ base = [p \in Procs |-> Missing]
    /\ wrote = [p \in Procs |-> NoRecord]

\* What a step of process p adds to the history.
Observe(p) ==
    LET begins == pc[p] = "idle" /\ pc'[p] = "mkdir"
        returns == /\ pc[p] = "replace"
                   /\ outcome'[p].exc = "none"
                   /\ outcome'[p].fault = "none"
    IN  /\ started' = IF begins THEN [started EXCEPT ![p] = @ + 1] ELSE started
        /\ base' = IF begins THEN [base EXCEPT ![p] = file] ELSE base
        /\ wrote' = IF begins THEN [wrote EXCEPT ![p] = NoRecord]
                    ELSE IF returns THEN [wrote EXCEPT ![p] = rec[p]]
                    ELSE wrote

\* A step of update in process p: the actions of the store, as they are.
TwoStep(p) ==
    /\ \/ \E r \in TwoRecords, fault \in BOOLEAN :
              started[p] < MaxUpdates /\ UpdateLoad(p, r, fault)
       \/ \E ok \in BOOLEAN : SaveMkdir(p, ok)
       \/ \E ok \in BOOLEAN : SaveCreate(p, ok)
       \/ \E ok \in BOOLEAN : SaveDump(p, ok)
       \/ \E ok \in BOOLEAN : SaveClose(p, ok)
       \/ \E ok \in BOOLEAN : SaveReplace(p, ok)
       \/ Crash(p)
    /\ Observe(p)

vars == <<storeVars, runVars, analyzerVars, twoVars>>

Init == StoreInit /\ RunOff /\ AnalyzerOff /\ TwoOff

\* One process uses the store (section 5 of the design: one invocation at a
\* time).
Next == StoreStep("p1") /\ UNCHANGED <<runVars, analyzerVars, twoVars>>

Spec == Init /\ [][Next]_vars

\* The cycles of run, from a first start: no file yet, the data directory
\* there or not.
InitRun ==
    /\ StoreInit
    /\ file = Missing
    /\ RunOff
    /\ AnalyzerOff
    /\ TwoOff

NextRun == RunStep /\ UNCHANGED <<analyzerVars, twoVars>>

SpecRun == InitRun /\ [][NextRun]_vars

\* The analyzer's constructor and methods, on every increment and input of
\* the sets above; the store and run stay as they start.
InitAnalyzer ==
    /\ StoreInit
    /\ file = Missing
    /\ ~dirExists
    /\ RunOff
    /\ AnalyzerOff
    /\ TwoOff

NextAnalyzer == AnalyzerStep /\ UNCHANGED <<storeVars, runVars, twoVars>>

SpecAnalyzer == InitAnalyzer /\ [][NextAnalyzer]_vars

\* Two processes updating the same file, each step of either at any time.
InitTwo ==
    /\ StoreInit
    /\ file \in TwoFiles
    /\ RunOff
    /\ AnalyzerOff
    /\ TwoOff

NextTwo == (\E p \in Procs : TwoStep(p)) /\ UNCHANGED <<runVars, analyzerVars>>

SpecTwo == InitTwo /\ [][NextTwo]_vars

\* ------------------------------------------------------------ claims
\* What the claims speak of, read off the state.

\* The file holds a record for symbol s that get_all would build.
StoredHas(f, s) ==
    f.kind = "object" /\ s \in DOMAIN f.data /\ EntryOutcome(f.data[s]) = "ok"

StoredValue(f, s) == EntryValue(f.data[s])

DecMax(a, b) == IF DecGt(a, b) THEN a ELSE b

SymbolKeys(f) == IF f.kind = "object" THEN DOMAIN f.data \cap IndexSymbol ELSE {}

\* An entry in the documented format: an object with a decimal string, a
\* YYYY-MM-DD date and an ISO-8601 timestamp.
WellFormed(e) ==
    /\ e.obj
    /\ e.ath_value.t = "str" /\ DecimalSyntaxOk(e.ath_value.s)
    /\ e.ath_date.t = "str" /\ DateSyntaxOk(e.ath_date.s)
    /\ e.updated_at.t = "str" /\ DateTimeSyntaxOk(e.updated_at.s)

UpdateReturned(o) == o.op = "update" /\ o.exc = "none" /\ o.fault = "none"

WritePhase == {"mkdir", "create", "write", "close", "replace"}

C2_NeverLowered ==
    [][\A s \in IndexSymbol :
          StoredHas(file, s) /\ StoredHas(file', s)
          => DecGe(StoredValue(file', s), StoredValue(file, s))]_vars

\* C3: in every step of update, a failing one and the process stopping
\* included, the file at the target path is left as it was, except in the
\* rename that ends a successful update, which puts the complete new document
\* there; so the path never holds a partial document, and after an update
\* that fails it holds what it held before.
C3_AtomicReplace ==
    [][\/ file' = file
       \/ \E p \in Procs :
             /\ pc[p] = "replace"
             /\ tmp[p] = "complete"
             /\ file' = ObjectFile(data[p])
             /\ UpdateReturned(outcome'[p])]_vars

\* An update failed, or the process stopped, with a partly written temporary
\* file on disk.
C3_Witness ==
    /\ outcome["p1"].op = "update"
    /\ outcome["p1"].fault \in {"write", "crash"}
    /\ tmp["p1"] = "partial"
    /\ file.kind = "object"

\* C4 (as stated): an I/O failure in the write phase of update reaches the
\* caller as ATHStoreError.
C4_WriteErrorIsStoreError ==
    \A p \in Procs :
        outcome[p].op = "update" /\ outcome[p].fault \in WritePhase
        => outcome[p].exc = "ATHStoreError"

\* C5 (as stated): after an update that failed while writing, closing or
\* renaming, its temporary file is gone.
C5_NoTempLeft ==
    \A p \in Procs :
        /\ pc[p] = "idle"
        /\ outcome[p].op = "update"
        /\ outcome[p].fault \in {"write", "close", "replace"}
        => tmp[p] = "none"

\* C6 (as stated): every symbol's entry that the file held before an update
\* is in the file after it.
C6_NoEntryDeleted ==
    last.rec # NoRecord => SymbolKeys(last.before) \subseteq SymbolKeys(file)

\* C7 (as stated): get(r.symbol) right after an update(r) that returned gives
\* a record equal to r.
C7_RoundTrip ==
    \A p \in Procs :
        /\ outcome[p].op = "get"
        /\ outcome[p].fault = "none"
        /\ outcome[p].after # NoRecord
        /\ outcome[p].after.symbol = outcome[p].sym
        => /\ outcome[p].exc = "none"
           /\ RecEq(outcome[p].rec, outcome[p].after)

\* C8: an update(r) that follows an update(r) of the same record, both
\* returning and both reading the file without an I/O failure, leaves what
\* get_all returns as it was after the first.
C8_Idempotent ==
    last.rec # NoRecord /\ last.repeat /\ ~last.loadFault
    => GetAllResult(file, FALSE) = GetAllResult(last.before, FALSE)

\* The same record was stored twice in a row and get_all returns it.
C8_Witness ==
    /\ last.rec # NoRecord /\ last.repeat /\ ~last.loadFault
    /\ GetAllResult(file, FALSE).exc = "none"
    /\ last.rec.symbol \in DOMAIN GetAllResult(file, FALSE).records
    /\ Cardinality(DOMAIN file.data) > 1

\* C9 (as stated): get and get_all raise nothing whatever the file holds, and
\* return nothing stored when there is no file or the file is no JSON object.
C9_ReadsNeverRaise ==
    \A p \in Procs :
        outcome[p].op \in {"get", "get_all"}
        => /\ outcome[p].exc = "none"
           /\ file.kind # "object"
              => outcome[p].records = NoRecords /\ outcome[p].rec = NoRecord

\* C10 (as stated): on a file that is a JSON object get_all raises nothing and
\* returns exactly the well-formed entries under the symbols' keys.
C10_SkipsOnlyMalformed ==
    \A p \in Procs :
        outcome[p].op = "get_all" /\ outcome[p].fault = "none"
            /\ file.kind = "object"
        => /\ outcome[p].exc = "none"
           /\ DOMAIN outcome[p].records =
                  {k \in SymbolKeys(file) : WellFormed(file.data[k])}
           /\ \A k \in DOMAIN outcome[p].records :
                  outcome[p].records[k] = EntryRecord(k, file.data[k])

\* What the analyzer claims speak of: the call's prices, compared as numbers.
CallCurrent == call.index_data.current_price

CallPrior == call.ath_record.ath_value

CurrentAbovePrior ==
    CallCurrent.c * Pow10(CallPrior.e) > CallPrior.c * Pow10(CallCurrent.e)

\* C11: the result of analyze has drop_tier > 0 exactly when it recommends
\* BUY, for every increment from 1 to 100.
C11_TierIffBuy ==
    call.op = "analyze"
    => (call.result.drop_tier > 0 <=> call.result.recommendation = "BUY")

\* analyze recommended BUY, with an increment other than the default.
C11_Witness ==
    /\ call.op = "analyze"
    /\ call.increment = 7
    /\ call.result.recommendation = "BUY"
    /\ call.result.drop_tier = 98

\* C12: analyze reports a new ATH exactly when there is no prior record or
\* the current price is strictly above the prior ath_value.
C12_NewAthIff ==
    call.op = "analyze"
    => (call.result.is_new_ath
        <=> (call.ath_record = NoRecord \/ CurrentAbovePrior))

\* analyze was given a price equal to the prior ath_value (written with
\* another exponent) and reported no new ATH.
C12_Witness ==
    /\ call.op = "analyze"
    /\ call.ath_record # NoRecord
    /\ CallCurrent = Dec(1, 0) /\ CallPrior = Dec(100, 2)
    /\ ~call.result.is_new_ath

\* C13: a result that reports a new ATH has gap 0, tier 0, HOLD and the
\* current price as ath_value, and comes with a record of the observation's
\* symbol, price and market date.
C13_NewAthShape ==
    call.op = "analyze" /\ call.result.is_new_ath
    => /\ call.result.gap_percent.c = 0
       /\ call.result.drop_tier = 0
       /\ call.result.recommendation = "HOLD"
       /\ call.result.ath_value = CallCurrent
       /\ call.new_ath # NoRecord
       /\ call.new_ath.symbol = call.index_data.symbol
       /\ call.new_ath.ath_value = CallCurrent
       /\ call.new_ath.ath_date = call.index_data.market_date

\* analyze reported a new ATH above a prior record.
C13_Witness ==
    /\ call.op = "analyze"
    /\ call.ath_record # NoRecord
    /\ CallCurrent = Dec(100001, 0) /\ CallPrior = Dec(100000, 0)
    /\ call.result.is_new_ath
    /\ call.new_ath.ath_value = Dec(100001, 0)

\* C14: analyze returns a record exactly when the result reports a new ATH;
\* with the current price at or below the prior ath_value it returns none and
\* the result carries the prior record's ath_value and ath_date.
C14_RecordIffNewAth ==
    call.op = "analyze"
    => /\ (call.new_ath # NoRecord <=> call.result.is_new_ath)
       /\ (call.ath_record # NoRecord /\ ~CurrentAbovePrior)
          => /\ call.new_ath = NoRecord
             /\ call.result.ath_value = call.ath_record.ath_value
             /\ call.result.ath_date = call.ath_record.ath_date

\* analyze was given a price below the prior ath_value and returned no
\* record.
C14_Witness ==
    /\ call.op = "analyze"
    /\ call.ath_record # NoRecord
    /\ CallCurrent = Dec(95005, 0) /\ CallPrior = Dec(100000, 0)
    /\ call.new_ath = NoRecord
    /\ call.result.ath_date = HistoricDate

\* C15: determine_drop_tier gives 0 for a gap that is not negative, and
\* otherwise the multiple of the increment at or just below the gap's
\* magnitude (gaps are in hundredths of a percent): a gap on a boundary
\* belongs to the tier it is on.
C15_TierIsFloor ==
    call.op = "tier"
    => IF call.gap.c >= 0 THEN call.tier = 0
       ELSE /\ call.tier >= 0
            /\ call.tier % call.increment = 0
            /\ call.tier * 100 <= -call.gap.c
            /\ -call.gap.c < (call.tier + call.increment) * 100

\* determine_drop_tier was called with a gap one hundredth short of a
\* boundary of an increment other than the default, and gave the tier below.
C15_Witness ==
    /\ call.op = "tier"
    /\ call.increment = 7
    /\ call.gap = Dec(-1399, 2)
    /\ call.tier = 7

\* The exact drop, in percent, of a call of analyze reaches t:
\* (ath - current) / ath * 100 >= t, with both prices on one scale.
DropReaches(t) ==
    LET cN == CallCurrent.c * Pow10(CallPrior.e)
        aN == CallPrior.c * Pow10(CallCurrent.e)
    IN  (aN - cN) * 100 >= t * aN

\* C16 (as stated): below or at a positive prior ath_value, the reported
\* drop_tier is the largest multiple of the increment that the exact drop
\* reaches, and BUY is not reported for a drop of less than one increment.
C16_TierOfExactDrop ==
    /\ call.op = "analyze"
    /\ call.ath_record # NoRecord
    /\ CallPrior.c > 0
    /\ ~CurrentAbovePrior
    => /\ call.result.drop_tier % call.increment = 0
       /\ DropReaches(call.result.drop_tier)
       /\ ~DropReaches(call.result.drop_tier + call.increment)
       /\ call.result.recommendation = "BUY" => DropReaches(call.increment)

\* The two prices of a call of calculate_gap_percent on one scale, and the
\* gap being the exact ((current - ath) / ath) * 100 to the nearest hundredth
\* (0 for ath = 0).
GapCurrent == call.current.c * Pow10(call.ath.e)

GapAth == call.ath.c * Pow10(call.current.e)

GapIsRounded ==
    IF call.ath.c = 0 THEN call.gap.c = 0
    ELSE /\ call.gap.e = 2
         /\ 2 * Abs(call.gap.c * GapAth - (GapCurrent - GapAth) * 10000)
                <= GapAth

\* C17 (as stated): the gap is the exact percentage rounded to two decimals,
\* 0 for ath = 0; it is negative or zero for current <= ath and positive for
\* current > ath.
C17_GapSignStrict ==
    call.op = "gap"
    => /\ GapIsRounded
       /\ GapCurrent <= GapAth => call.gap.c <= 0
       /\ GapCurrent > GapAth => call.gap.c > 0

\* C17 (amended): the gap is the exact percentage rounded to two decimals, 0
\* for ath = 0; for ath > 0 it is negative or zero for current <= ath and
\* positive or zero for current > ath, zero exactly when the rise rounds to
\* 0.00 (it is under 0.005 percent).
C17_GapRoundedSign ==
    call.op = "gap"
    => /\ GapIsRounded
       /\ GapCurrent <= GapAth => call.gap.c <= 0
       /\ GapCurrent > GapAth => call.gap.c >= 0
       /\ (GapCurrent > GapAth /\ call.ath.c > 0)
          => (call.gap.c = 0 <=> 2 * (GapCurrent - GapAth) * 10000 <= GapAth)

\* calculate_gap_percent was called with a price just above the ATH and
\* returned a gap of 0.00.
C17_Witness ==
    /\ call.op = "gap"
    /\ call.current = Dec(100001, 0) /\ call.ath = Dec(100000, 0)
    /\ call.gap.c = 0

\* C18: constructing a DropAnalyzer succeeds for the integers 1..100 and
\* raises (ValueError) for every other one, leaving no analyzer; so an
\* analyzer's increment is always in 1..100.
C18_IncrementValidated ==
    /\ analyzer.exists => analyzer.increment \in 1..100
    /\ call.op = "init"
       => IF call.increment \in 1..100
          THEN /\ call.exc = "none"
               /\ analyzer = [exists |-> TRUE, increment |-> call.increment]
          ELSE /\ call.exc = "ValueError"
               /\ ~analyzer.exists

\* The construction with 101 was refused.
C18_Witness ==
    /\ call.op = "init"
    /\ call.increment = 101
    /\ call.exc = "ValueError"
    /\ ~analyzer.exists

\* What the exit-code claims speak of, where run has returned: whether some
\* and whether all of the configured symbols were fetched, and whether a
\* notifier reported failure.
SomeFetched == index_data_list # <<>>

AllFetched == Len(index_data_list) = Len(config.indices)

SomeNotificationFailed == sent.console = "failed" \/ sent.email = "failed"

\* C19 (as stated): with some but not all symbols fetched run returns
\* EXIT_PARTIAL, and it returns EXIT_SUCCESS only with every symbol fetched
\* and no notification failed.
C19_PartialFetchIsPartial ==
    runPc = "returned"
    => /\ (SomeFetched /\ ~AllFetched) => exitCode = EXIT_PARTIAL
       /\ exitCode = EXIT_SUCCESS
          => AllFetched /\ sent.console = "ok" /\ sent.email # "failed"

\* C20 (as stated): run returns EXIT_FAILURE exactly when nothing was
\* fetched; with something fetched, failed notifications give EXIT_PARTIAL.
C20_FailureOnlyWithoutData ==
    runPc = "returned"
    => /\ (exitCode = EXIT_FAILURE <=> ~SomeFetched)
       /\ (SomeFetched /\ SomeNotificationFailed) => exitCode = EXIT_PARTIAL

\* ---- run, seen through the calls it made (trace)

\* run has built a Report (line 80) and returned.
Reported == runPc = "returned" /\ raised = "none" /\ sent # NotSent

\* The backfill loop of this cycle is over.
BackfillOver == runPc = "analyze" \/ Reported

IsFetchOk(e) == e.op = "fetch" /\ e.exc = "none"

IsAnalyze(e) == e.op = "analyze"

\* The positions in trace of the store.update calls that raised.
UpdateFailures ==
    {i \in DOMAIN trace : trace[i].op = "update" /\ trace[i].exc # "none"}

\* The position in trace of the n-th call of analyze.
NthAnalyze(n) ==
    CHOOSE k \in DOMAIN trace :
        /\ IsAnalyze(trace[k])
        /\ Cardinality({j \in 1..k : IsAnalyze(trace[j])}) = n

\* C21: a write error raised by store.update during a cycle, in the backfill
\* loop or in the analysis loop, is not caught by run: it is the last call of
\* the cycle, the exception leaves run, and main exits with EXIT_FAILURE,
\* never with EXIT_SUCCESS.
C21_WriteErrorPropagates ==
    \A i \in UpdateFailures :
        /\ i = Len(trace)
        /\ runPc = "raised"
        /\ raised = trace[i].exc
        /\ exitCode = EXIT_FAILURE
        /\ exitCode # EXIT_SUCCESS

\* A backfill was stored, then the write of a new high after an analysis
\* failed.
C21_Witness ==
    /\ UpdateFailures # {}
    /\ results # <<>>
    /\ \E j \in DOMAIN trace : trace[j].op = "update" /\ trace[j].exc = "none"
    /\ trace[Len(trace)].exc = "ATHStoreError"
    /\ exitCode = EXIT_FAILURE

\* C24: the report holds one result for each configured symbol whose fetch
\* succeeded, in the order of the configured list; a failed fetch skips its
\* symbol only.
C24_ReportInOrder ==
    Reported =>
        LET fetches == SubSeq(trace, 1, Len(config.indices))
            ok == SelectSeq(fetches, IsFetchOk)
        IN  /\ \A i \in DOMAIN fetches :
                   fetches[i].op = "fetch" /\ fetches[i].symbol = config.indices[i]
            /\ Len(results) = Len(ok)
            /\ \A i \in DOMAIN results :
                   /\ results[i].symbol = ok[i].symbol
                   /\ results[i].current_price = index_data_list[i].current_price

\* Two different symbols fetched, reported in the configured order.
C24_Witness ==
    /\ Reported
    /\ config.indices = <<"^NDX", "^GSPC">>
    /\ Len(results) = 2
    /\ results[1].symbol = "^NDX" /\ results[2].symbol = "^GSPC"

\* C25: every fetched symbol without a stored record gets a fetch_ath call;
\* when one succeeded its record was passed to store.update and is the prior
\* record of the symbol's analyses; when none did, analyze is called without
\* a prior record, the result is a new high at the current price, and the new
\* record is passed to store.update.
C25_Backfill ==
    /\ BackfillOver =>
           \A i \in DOMAIN index_data_list :
               snapshot[index_data_list[i].symbol] = NoRecord =>
                   \E j \in DOMAIN trace :
                       /\ trace[j].op = "fetch_ath"
                       /\ trace[j].symbol = index_data_list[i].symbol
    /\ \A n \in DOMAIN results :
           LET k == NthAnalyze(n)
               s == trace[k].symbol
               good == {j \in 1..k : /\ trace[j].op = "fetch_ath"
                                     /\ trace[j].symbol = s
                                     /\ trace[j].exc = "none"}
           IN  snapshot[s] = NoRecord =>
                   IF good # {}
                   THEN \A j \in good :
                            /\ trace[j + 1].op = "update"
                            /\ trace[j + 1].rec = trace[j].rec
                            /\ trace[j + 1].exc = "none"
                            /\ trace[k].rec = trace[j].rec
                   ELSE /\ trace[k].rec = NoRecord
                        /\ results[n].is_new_ath
                        /\ results[n].ath_value = index_data_list[n].current_price
                        /\ k < Len(trace)
                        /\ trace[k + 1].op = "update"
                        /\ trace[k + 1].rec.symbol = s
                        /\ trace[k + 1].rec.ath_value =
                               index_data_list[n].current_price

\* Two symbols without a record: the backfill of the first failed, that of
\* the second succeeded; both were analysed.
C25_Witness ==
    /\ Len(results) = 2
    /\ index_data_list[1].symbol # index_data_list[2].symbol
    /\ snapshot = NoAthRecords
    /\ trace[NthAnalyze(1)].rec = NoRecord
    /\ trace[NthAnalyze(2)].rec # NoRecord
    /\ \E j \in DOMAIN trace :
           /\ trace[j].op = "fetch_ath"
           /\ trace[j].exc = "none"
           /\ trace[j].rec = trace[NthAnalyze(2)].rec

\* C26: after a cycle without a storage error the store holds, for every
\* result of the report, a record of the result's symbol with the result's
\* ath_value.
C26_StoreMatchesReport ==
    Reported =>
        \A i \in DOMAIN results :
            /\ StoredHas(file, results[i].symbol)
            /\ DecEq(StoredValue(file, results[i].symbol), results[i].ath_value)

\* C28: the prior record passed to analyze is the record the store holds for
\* the symbol at the moment of the call.
C28_SnapshotNeverLags ==
    \A k \in DOMAIN trace :
        IsAnalyze(trace[k]) => trace[k].rec = trace[k].held

\* C29: when the fetch of every configured symbol failed, run returns
\* EXIT_FAILURE having called neither fetch_ath nor store.update nor analyze,
\* the file and its directory are what they were, and no notification went
\* out.
C29_NothingFetchedNothingDone ==
    (runPc # "off" /\ \A i \in 1..Len(config.indices) : trace[i].exc # "none") =>
        /\ runPc = "returned"
        /\ raised = "none"
        /\ exitCode = EXIT_FAILURE
        /\ Len(trace) = Len(config.indices)
        /\ results = <<>>
        /\ file = atStart.file
        /\ dirExists = atStart.dir
        /\ sent = NotSent

\* Both fetches of a cycle failed, with records in the store from the cycle
\* before.
C29_Witness ==
    /\ runPc = "returned"
    /\ Len(config.indices) = 2
    /\ \A i \in 1..2 : trace[i].exc = "MarketDataError"
    /\ file.kind = "object"
    /\ exitCode = EXIT_FAILURE

\* ---- two processes

\* C22: with the steps of two updates interleaved, the target is at every
\* moment what it was at the start or a complete document: a JSON object
\* whose records are entries that one of the two wrote, each well formed;
\* never a part of a document.
C22_NoCorruption ==
    /\ file.kind \in {"missing", "object"}
    /\ \A k \in DOMAIN file.data :
           \/ k = "FOO" /\ file.data[k] = NotAnObject
           \/ /\ k \in StoredSymbols
              /\ WellFormed(file.data[k])
              /\ \E r \in TwoRecords :
                     r.symbol = k /\ file.data[k] = SerializeRecord(r)

\* A lost update: both processes loaded the same file, which held neither
\* symbol, each submitted a record for a different symbol, both updates
\* returned normally, and the file holds one of the two records only.
C22_Witness ==
    /\ \A p \in Procs : pc[p] = "idle" /\ wrote[p] # NoRecord
    /\ wrote["p1"].symbol # wrote["p2"].symbol
    /\ base["p1"] = base["p2"]
    /\ \A p \in Procs : ~StoredHas(base["p1"], wrote[p].symbol)
    /\ StoredHas(file, wrote["p1"].symbol)
    /\ ~StoredHas(file, wrote["p2"].symbol)

\* ---- analyze, called twice

\* C23: two calls of analyze with the same increment, the same observation
\* and the same prior record return equal results and equal new records,
\* updated_at included, whatever the clock shows.
C23_AnalyzePure ==
    (/\ earlier.op = "analyze"
     /\ call.op = "analyze"
     /\ call.increment = earlier.increment
     /\ call.index_data = earlier.index_data
     /\ call.ath_record = earlier.ath_record) =>
        /\ call.result = earlier.result
        /\ call.new_ath = earlier.new_ath

\* ---- the store: what a call leaves alone

\* The update that has just returned found a readable JSON object.
UpdatedReadable ==
    last.rec # NoRecord /\ last.before.kind = "object" /\ ~last.loadFault

\* C27: an update that found a readable JSON object changes the entry of its
\* record's symbol only: every other key, a symbol's or not, is in the file
\* after the update exactly when it was before, with the same entry; so
\* when the other symbols' entries are records (as updates leave them)
\* get_all returns all of them and the new one.
C27_OnlyOwnEntry ==
    UpdatedReadable =>
        /\ file.kind = "object"
        /\ file.data[last.rec.symbol] = SerializeRecord(last.rec)
        /\ \A k \in (DOMAIN last.before.data \cup DOMAIN file.data)
                      \ {last.rec.symbol} :
               /\ k \in DOMAIN last.before.data
               /\ k \in DOMAIN file.data
               /\ file.data[k] = last.before.data[k]
        /\ LET g == GetAllResult(file, FALSE)
               others == SymbolKeys(last.before) \ {last.rec.symbol}
           IN  (\A x \in others : StoredHas(last.before, x)) =>
                   /\ g.exc = "none"
                   /\ DOMAIN g.records = others \cup {last.rec.symbol}
                   /\ RecEq(g.records[last.rec.symbol], last.rec)
                   /\ \A x \in others :
                          g.records[x] = EntryRecord(x, last.before.data[x])

\* An update of ^NDX on a file with a record of ^GSPC and an unknown key:
\* get_all returns both records.
C27_Witness ==
    /\ UpdatedReadable
    /\ last.rec.symbol = "^NDX"
    /\ DOMAIN last.before.data = {"^GSPC", "FOO"}
    /\ StoredHas(last.before, "^GSPC")
    /\ DOMAIN GetAllResult(file, FALSE).records = {"^GSPC", "^NDX"}
    /\ "FOO" \in DOMAIN file.data

\* C30: a step in which a get or a get_all ends leaves the file, its
\* directory and the temporary files as they are, whatever the file is; the
\* file and the directory change only in a step of an update under way.
C30_ReadsChangeNothing ==
    [][/\ (\E p \in Procs : /\ outcome'[p] # outcome[p]
                            /\ outcome'[p].op \in {"get", "get_all"}) =>
              (file' = file /\ dirExists' = dirExists /\ tmp' = tmp)
       /\ (file' # file \/ dirExists' # dirExists) =>
              (\E p \in Procs : pc[p] # "idle")]_vars

\* A get found no file and no directory, and there is none after it.
C30_Witness ==
    /\ outcome["p1"].op = "get"
    /\ outcome["p1"].exc = "none"
    /\ file = Missing
    /\ ~dirExists

====
